---------------------------- MODULE Spec2Model ----------------------------
(***************************************************************************)
(* A model of the ps2_spi_sniff sketches:                                  *)
(*   - the lock-free one-producer/one-consumer ring buffer (buff_write,    *)
(*     buff_read) at statement granularity,                                *)
(*   - the item count buff_write derives from the two counters,            *)
(*   - the index arithmetic (unsynched_head, unreported_head),             *)
(*   - the two-node synchronisation protocol (capture interrupt,           *)
(*     alpha_synchronize, beta_synchronize_tx/rx, the reporting loop),     *)
(*   - buff_write and buff_read called with any capacity,                  *)
(*   - the single-buffer capture sketch (handler and flushing loop),       *)
(*   - the first version of the two-node sketch (spi_sniff.ino).           *)
(* Each part has its own specification over the shared variable list; the  *)
(* variables of the other parts stay at their initial values.              *)
(***************************************************************************)
EXTENDS Integers, Sequences, FiniteSets, TLC

(***************************************************************************)
(* C arithmetic on the target (AVR: int and unsigned int are 16 bits).     *)
(***************************************************************************)
UINT_MAX == 65535

INT_MAX == 32767

CounterMod == UINT_MAX + 1

\* conversion of a mathematical integer to unsigned int
ToUnsigned(x) == x % CounterMod

\* conversion of an unsigned int value to int (two's complement)
ToSigned(u) == IF u > INT_MAX THEN u - CounterMod ELSE u

\* C's % truncates towards zero: the result has the sign of the dividend
CRem(a, b) == IF a >= 0 THEN a % b ELSE 0 - ((0 - a) % b)

RECURSIVE BitAnd(_, _)
\* bitwise AND of two non-negative integers
BitAnd(a, b) ==
  IF a = 0 \/ b = 0 THEN 0
  ELSE 2 * BitAnd(a \div 2, b \div 2) + (IF a % 2 = 1 /\ b % 2 = 1 THEN 1 ELSE 0)

(***************************************************************************)
(* Bounds of the model.                                                    *)
(***************************************************************************)
\* the ring buffer holds 2^CapK slots
CapK == 2

\* the producer stops after capacity + ExtraWrites successful writes
ExtraWrites == 3

\* one initial state has both counters WrapMargin below the wrap boundary
WrapMargin == 3

capacity == 2 ^ CapK

MaxWrites == capacity + ExtraWrites

VARIABLES
  \* ring buffer: storage and the two counters
  buff, reads, writes,
  \* buff_write: position, argument, locals, last return value
  pcW, witem, witems, wtail, wret,
  \* buff_read: position, local, output item, last return value
  pcR, rhead, ritem, rret,
  \* history: items of the successful writes and reads, in order; the true
  \* occupancy sampled by the current/last buff_write; a bit that flips each
  \* time buff_read is entered
  written, readSeq, occAtCall, rtick,
  \* index arithmetic: the arguments and the two results
  ix_size, ix_tail, ix_unsynched, ix_unreported, ix_uhead, ix_rhead, ix_pc,
  \* the two nodes: the logs and their head and tail indices
  our_log, their_log, our_log_head, our_log_tail, their_log_head, their_log_tail,
  \* the backlog counts
  bytes_unsynched, bytes_unreported,
  \* the debug LEDs
  SLOWSYNC_LED, SLOWDUMP_LED, UNSYNCHRONIZED_LED, DEADLOCKED_LED,
  \* each node's main loop: position; locals of alpha_synchronize (bytes_synched,
  \* its uhead, the transmit loop's i, the value read by bytes_unsynched -= ...);
  \* locals of the reporting loop (start, its i); loop's int synched
  pc, bytes_synched, tx_uhead, tx_i, dec_tmp, start, rep_i, synched,
  \* the I2C transport: the count of a request not yet answered, the bytes
  \* available to the master, the bytes the master has queued for
  \* transmission, a transmission not yet delivered to the slave
  wire_req, wire_rx, wire_tx, wire_deliver,
  \* history: bytes that arrived at each node, bytes each node stored, the
  \* pairs printed by each node's current or last reporting pass, the number
  \* of bookkeeping steps each node completed, that number when the pass
  \* began (-1: no pass yet), the bytes each node had stored when the last
  \* request was issued, the number of times the slow-sync LED was driven,
  \* the count passed to the last request, alpha's unsynchronized count and
  \* number of stored bytes when its current or last sync round began
  arrived, captured, out, syncs, passSync, capAtReq, slowsync_events,
  requested, roundStart,
  \* the ring buffer functions called with any capacity, one call at a time:
  \* the capacity argument, storage and counters, the last return value, and
  \* as history the items written and read, whether a write has stored over
  \* an item not yet read, whether a call has returned false
  q_capacity, q_buff, q_reads, q_writes, q_ret, q_written, q_readSeq,
  q_clobbered, q_refused,
  \* the single-buffer sketch: the buffer, pos, buffer_full, flushes; the
  \* SPI interrupt enable bit and interrupt flag and the data register; the
  \* position of loop() and its i; as history the number of bytes that
  \* arrived, the bytes stored since pos was last 0, the bytes printed by
  \* the current or last flush
  sk_buff, pos, buffer_full, flushes, SPIE, SPIF, sk_SPDR, sk_pc, sk_i,
  sk_arrived, sk_fill, sk_printed,
  \* the first version of the two-node sketch (spi_sniff.ino): each node's
  \* logs, write position, their_log_tail, 8-bit count and LEDs; alpha's
  \* position in alpha_synchronize, its bytes_synced and the value read by
  \* bytes_unsynced -= ...; the bytes available to the master; as history
  \* the number of bytes that arrived at each node and whether the handler
  \* has stored over a byte that was still unsynchronized, the number of
  \* times alpha_synchronize was entered
  fs_our_log, fs_their_log, our_log_pos, fs_their_tail, bytes_unsynced, fs_led,
  fs_pc, bytes_synced, fs_tmp, fs_rx, fs_arrived, fs_clobbered, fs_rounds

ringVars == <<buff, reads, writes, pcW, witem, witems, wtail, wret,
              pcR, rhead, ritem, rret, written, readSeq, occAtCall, rtick>>

ixVars == <<ix_size, ix_tail, ix_unsynched, ix_unreported, ix_uhead, ix_rhead, ix_pc>>

logVars == <<our_log, their_log, our_log_head, our_log_tail, their_log_head,
             their_log_tail>>

countVars == <<bytes_unsynched, bytes_unreported>>

ledVars == <<SLOWSYNC_LED, SLOWDUMP_LED, UNSYNCHRONIZED_LED, DEADLOCKED_LED>>

mainVars == <<pc, bytes_synched, tx_uhead, tx_i, dec_tmp, start, rep_i, synched>>

wireVars == <<wire_req, wire_rx, wire_tx, wire_deliver>>

histVars == <<arrived, captured, out, syncs, passSync, capAtReq, slowsync_events,
              requested, roundStart>>

syncVars == <<logVars, countVars, ledVars, mainVars, wireVars, histVars>>

capVars == <<q_capacity, q_buff, q_reads, q_writes, q_ret, q_written, q_readSeq,
             q_clobbered, q_refused>>

sketchVars == <<sk_buff, pos, buffer_full, flushes, SPIE, SPIF, sk_SPDR, sk_pc,
                sk_i, sk_arrived, sk_fill, sk_printed>>

firstVars == <<fs_our_log, fs_their_log, our_log_pos, fs_their_tail,
               bytes_unsynced, fs_led, fs_pc, bytes_synced, fs_tmp, fs_rx,
               fs_arrived, fs_clobbered, fs_rounds>>

\* the parts modelled after the first three
extraVars == <<capVars, sketchVars, firstVars>>

vars == <<ringVars, ixVars, syncVars, extraVars>>

\* what each part leaves alone
nonRingVars == <<ixVars, syncVars, extraVars>>

nonIxVars == <<ringVars, syncVars, extraVars>>

nonSyncVars == <<ringVars, ixVars, extraVars>>

nonCapVars == <<ringVars, ixVars, syncVars, sketchVars, firstVars>>

nonSketchVars == <<ringVars, ixVars, syncVars, capVars, firstVars>>

nonFirstVars == <<ringVars, ixVars, syncVars, capVars, sketchVars>>

(***************************************************************************)
(* The ring buffer.                                                        *)
(***************************************************************************)
Slots == 0 .. (capacity - 1)

\* the true number of unread items
Occupancy == (writes - reads) % CounterMod

\* the counter values the buffer is started from: fresh, or just below the
\* wrap boundary (the state after that many write/read pairs)
StartCounts == {0, CounterMod - WrapMargin}

\* the item the producer submits: the ordinal of the write, as a byte, never 0
NextItem == (Len(written) % 255) + 1

\* the item count taken in arithmetic wider than the counters
ItemsWide(w, r) ==
  LET diff == w - r
  IN  IF diff < 0 THEN ToUnsigned(UINT_MAX - diff) ELSE diff

\* the item count with the operands of the subtraction exchanged
ItemsSwapped(w, r) ==
  LET diff == ToSigned(ToUnsigned(r - w))
  IN  IF diff < 0 THEN ToUnsigned(UINT_MAX - ToUnsigned(diff)) ELSE diff

\* buff_write, lines 154-160: the item count
ItemsInBuffer(w, r) ==
  LET diff == ToSigned(ToUnsigned(w - r))
  IN  IF diff < 0 THEN ToUnsigned(UINT_MAX - ToUnsigned(diff)) ELSE diff

\* a full test that only trips beyond the capacity
IsFullBeyond(items) == items > capacity

\* buff_write, line 165: items == capacity
IsFull(items) == items = capacity

\* an empty test by magnitude, blind to a wrapped write counter
IsEmptyByOrder(w, r) == w <= r

\* buff_read, line 194: *writes == *reads
IsEmpty(w, r) == w = r

\* the slot of the counter value after its increment
SlotOfNext(count) == BitAnd(count + 1, capacity - 1)

\* the slot a counter value maps to: count & (capacity - 1)
SlotOf(count) == BitAnd(count, capacity - 1)

RingInit ==
  /\ buff = [i \in Slots |-> 0]
  /\ \E c \in StartCounts : reads = c /\ writes = c
  /\ pcW = "idle" /\ witem = 0 /\ witems = 0 /\ wtail = 0 /\ wret = "none"
  /\ pcR = "idle" /\ rhead = 0 /\ ritem = 0 /\ rret = "none"
  /\ written = <<>> /\ readSeq = <<>> /\ occAtCall = 0 /\ rtick = FALSE

\* buff_write is entered and computes items from the two counters
WItems ==
  /\ pcW = "idle"
  /\ Len(written) < MaxWrites
  /\ witem' = NextItem
  /\ witems' = ItemsInBuffer(writes, reads)
  /\ occAtCall' = Occupancy
  /\ wret' = "none"
  /\ pcW' = "w_full"
  /\ UNCHANGED <<buff, reads, writes, wtail, pcR, rhead, ritem, rret,
                 written, readSeq, rtick>>
  /\ UNCHANGED nonRingVars

\* if (items == capacity) return false;
WFull ==
  /\ pcW = "w_full"
  /\ IF IsFull(witems)
       THEN wret' = "false" /\ pcW' = "idle"
       ELSE wret' = wret /\ pcW' = "w_tail"
  /\ UNCHANGED <<buff, reads, writes, witem, witems, wtail, pcR, rhead, ritem,
                 rret, written, readSeq, occAtCall, rtick>>
  /\ UNCHANGED nonRingVars

\* unsigned int tail = *writes & (capacity - 1);
WTail ==
  /\ pcW = "w_tail"
  /\ wtail' = SlotOf(writes)
  /\ pcW' = "w_store"
  /\ UNCHANGED <<buff, reads, writes, witem, witems, wret, pcR, rhead, ritem,
                 rret, written, readSeq, occAtCall, rtick>>
  /\ UNCHANGED nonRingVars

\* buff[tail] = item;
WStore ==
  /\ pcW = "w_store"
  /\ buff' = [buff EXCEPT ![wtail] = witem]
  /\ pcW' = "w_inc"
  /\ UNCHANGED <<reads, writes, witem, witems, wtail, wret, pcR, rhead, ritem,
                 rret, written, readSeq, occAtCall, rtick>>
  /\ UNCHANGED nonRingVars

\* *writes = *writes + 1; return true;
WInc ==
  /\ pcW = "w_inc"
  /\ writes' = ToUnsigned(writes + 1)
  /\ wret' = "true"
  /\ written' = Append(written, witem)
  /\ pcW' = "idle"
  /\ UNCHANGED <<buff, reads, witem, witems, wtail, pcR, rhead, ritem, rret,
                 readSeq, occAtCall, rtick>>
  /\ UNCHANGED nonRingVars

\* buff_read is entered: if (*writes == *reads) return false;
REmpty ==
  /\ pcR = "idle"
  /\ rtick' = ~rtick
  /\ IF IsEmpty(writes, reads)
       THEN rret' = "false" /\ pcR' = "idle"
       ELSE rret' = "none" /\ pcR' = "r_head"
  /\ UNCHANGED <<buff, reads, writes, pcW, witem, witems, wtail, wret, rhead,
                 ritem, written, readSeq, occAtCall>>
  /\ UNCHANGED nonRingVars

\* unsigned int head = *reads & (capacity - 1);
RHead ==
  /\ pcR = "r_head"
  /\ rhead' = SlotOf(reads)
  /\ pcR' = "r_copy"
  /\ UNCHANGED <<buff, reads, writes, pcW, witem, witems, wtail, wret, ritem,
                 rret, written, readSeq, occAtCall, rtick>>
  /\ UNCHANGED nonRingVars

\* *item = buff[head];
RCopy ==
  /\ pcR = "r_copy"
  /\ ritem' = buff[rhead]
  /\ pcR' = "r_inc"
  /\ UNCHANGED <<buff, reads, writes, pcW, witem, witems, wtail, wret, rhead,
                 rret, written, readSeq, occAtCall, rtick>>
  /\ UNCHANGED nonRingVars

\* a read that also clears the slot it has consumed
RIncClearsSlot ==
  /\ pcR = "r_inc"
  /\ reads' = ToUnsigned(reads + 1)
  /\ rret' = "true"
  /\ readSeq' = Append(readSeq, ritem)
  /\ pcR' = "idle"
  /\ buff' = [buff EXCEPT ![rhead] = 0]
  /\ UNCHANGED <<writes, pcW, witem, witems, wtail, wret, rhead, ritem,
                 written, occAtCall, rtick>>
  /\ UNCHANGED nonRingVars

\* *reads = *reads + 1; return true;
RInc ==
  /\ pcR = "r_inc"
  /\ reads' = ToUnsigned(reads + 1)
  /\ rret' = "true"
  /\ readSeq' = Append(readSeq, ritem)
  /\ pcR' = "idle"
  /\ UNCHANGED <<buff, writes, pcW, witem, witems, wtail, wret, rhead, ritem,
                 written, occAtCall, rtick>>
  /\ UNCHANGED nonRingVars

RingNext ==
  \/ WItems \/ WFull \/ WTail \/ WStore \/ WInc
  \/ REmpty \/ RHead \/ RCopy \/ RInc

\* the ring buffer's variables while another part runs
RingOff ==
  /\ buff = [i \in Slots |-> 0] /\ reads = 0 /\ writes = 0
  /\ pcW = "off" /\ witem = 0 /\ witems = 0 /\ wtail = 0 /\ wret = "none"
  /\ pcR = "off" /\ rhead = 0 /\ ritem = 0 /\ rret = "none"
  /\ written = <<>> /\ readSeq = <<>> /\ occAtCall = 0 /\ rtick = FALSE

(***************************************************************************)
(* The item count of buff_write as a function of the two counters: every   *)
(* value of the write counter, every occupancy the buffer can have.        *)
(***************************************************************************)
ItemsInit ==
  /\ buff = [i \in Slots |-> 0]
  /\ \E w \in 0 .. UINT_MAX : \E occ \in 0 .. capacity :
       writes = w /\ reads = ToUnsigned(w - occ)
  /\ pcW = "idle" /\ witem = 0 /\ witems = 0 /\ wtail = 0 /\ wret = "none"
  /\ pcR = "off" /\ rhead = 0 /\ ritem = 0 /\ rret = "none"
  /\ written = <<>> /\ readSeq = <<>> /\ occAtCall = 0 /\ rtick = FALSE

ItemsNext == WItems \/ WFull

(***************************************************************************)
(* Index arithmetic.                                                       *)
(***************************************************************************)
\* the largest log size the index functions are applied to
MaxIxSize == 6

\* unreported_head without the + log_size before the modulus
unreported_head_unbiased(unreported, unsynched, log_tail, log_size) ==
  LET uhead == CRem((log_tail - unsynched - 1) + 2 * log_size, log_size)
  IN  CRem(uhead - unreported, log_size)

\* int unsynched_head(int unsynched, int log_tail, int log_size)
unsynched_head(unsynched, log_tail, log_size) ==
  CRem((log_tail - unsynched - 1) + 2 * log_size, log_size)

\* int unreported_head(int unreported, int unsynched, int log_tail, int log_size)
unreported_head(unreported, unsynched, log_tail, log_size) ==
  LET uhead == unsynched_head(unsynched, log_tail, log_size)
  IN  CRem((uhead - unreported) + log_size, log_size)

IxInit ==
  /\ ix_size \in 1 .. MaxIxSize
  /\ ix_tail \in 0 .. (ix_size - 1)
  /\ ix_unsynched \in 0 .. (ix_size - 1)
  /\ ix_unreported \in 0 .. (ix_size - 1)
  /\ ix_uhead = 0 /\ ix_rhead = 0
  /\ ix_pc = "args"

IxOff ==
  /\ ix_size = 1 /\ ix_tail = 0 /\ ix_unsynched = 0 /\ ix_unreported = 0
  /\ ix_uhead = 0 /\ ix_rhead = 0 /\ ix_pc = "off"

\* both functions applied to the arguments
ComputeHeads ==
  /\ ix_pc = "args"
  /\ ix_uhead' = unsynched_head(ix_unsynched, ix_tail, ix_size)
  /\ ix_rhead' = unreported_head(ix_unreported, ix_unsynched, ix_tail, ix_size)
  /\ ix_pc' = "done"
  /\ UNCHANGED <<ix_size, ix_tail, ix_unsynched, ix_unreported>>
  /\ UNCHANGED nonIxVars

IxNext == ComputeHeads


(***************************************************************************)
(* The two nodes and their synchronisation over I2C.                       *)
(***************************************************************************)
\* the size of each log in the model (LOG_SIZE is 128 in the sketch)
LOG_SIZE == 4

\* the number of bytes that arrive at each node over SPI: one more than a
\* log ever stores
MaxArrivals == LOG_SIZE

\* enum id { alpha, beta }
Node == {"alpha", "beta"}

LogIndex == 0 .. (LOG_SIZE - 1)

\* SPDR: the k-th byte on a node's side of the bus (0x11, 0x12, ... on
\* alpha's side, 0xA1, 0xA2, ... on beta's); never 0, the initial content of
\* the logs
SPDR(n, k) == IF n = "alpha" THEN 16 + k ELSE 160 + k

\* a full test that trips when the tail has reached the head
LogFullAtHead(head, tail) == head = tail

\* the test both logs use for "no room": head == (tail + 1) % LOG_SIZE
LogFull(head, tail) == head = (tail + 1) % LOG_SIZE

\* a read of log[index]; an index outside the array reads no log byte (-1)
ReadLog(log, index) == IF index \in LogIndex THEN log[index] ELSE -1

\* the bytes a node transmits: for (i = 0; i < count; i++)
\*   Wire.write(our_log[(uhead + i) % LOG_SIZE])
LogSpan(log, from, count) ==
  [i \in 1 .. (IF count > 0 THEN count ELSE 0) |->
     ReadLog(log, CRem(from + i - 1, LOG_SIZE))]

\* the first k elements of a sequence (all of it when it is shorter)
Take(seq, k) == SubSeq(seq, 1, IF k < Len(seq) THEN k ELSE Len(seq))

RECURSIVE ReceiveUnchecked(_, _, _, _)
\* a receive loop that stores every byte, room or not
ReceiveUnchecked(bytes, log, head, tail) ==
  IF bytes = <<>> THEN [log |-> log, tail |-> tail, dropped |-> FALSE]
  ELSE ReceiveUnchecked(Tail(bytes), [log EXCEPT ![tail] = Head(bytes)], head,
                        (tail + 1) % LOG_SIZE)

RECURSIVE Receive(_, _, _, _)
\* while (Wire.available() > 0): each byte goes to their_log at the tail if
\* there is room, else it is dropped and SLOWDUMP_LED is driven
Receive(bytes, log, head, tail) ==
  IF bytes = <<>> THEN [log |-> log, tail |-> tail, dropped |-> FALSE]
  ELSE IF ~LogFull(head, tail)
         THEN Receive(Tail(bytes), [log EXCEPT ![tail] = Head(bytes)], head,
                      (tail + 1) % LOG_SIZE)
         ELSE [Receive(Tail(bytes), log, head, tail) EXCEPT !.dropped = TRUE]

SyncInit ==
  /\ our_log = [n \in Node |-> [i \in LogIndex |-> 0]]
  /\ their_log = [n \in Node |-> [i \in LogIndex |-> 0]]
  /\ our_log_head = [n \in Node |-> 0]
  /\ our_log_tail = [n \in Node |-> 0]
  /\ their_log_head = [n \in Node |-> 0]
  /\ their_log_tail = [n \in Node |-> 0]
  /\ bytes_unsynched = [n \in Node |-> 0]
  /\ bytes_unreported = [n \in Node |-> 0]
  /\ SLOWSYNC_LED = [n \in Node |-> FALSE]
  /\ SLOWDUMP_LED = [n \in Node |-> FALSE]
  /\ UNSYNCHRONIZED_LED = [n \in Node |-> FALSE]
  /\ DEADLOCKED_LED = [n \in Node |-> FALSE]
  /\ pc = [n \in Node |-> "loop"]
  /\ bytes_synched = 0 /\ tx_uhead = 0 /\ tx_i = 0 /\ dec_tmp = 0 /\ synched = 0
  /\ start = [n \in Node |-> 0]
  /\ rep_i = [n \in Node |-> 0]
  /\ wire_req = -1 /\ wire_rx = <<>> /\ wire_tx = <<>> /\ wire_deliver = <<>>
  /\ arrived = [n \in Node |-> 0]
  /\ captured = [n \in Node |-> <<>>]
  /\ out = [n \in Node |-> <<>>]
  /\ syncs = [n \in Node |-> 0]
  /\ passSync = [n \in Node |-> -1]
  /\ capAtReq = [n \in Node |-> 0]
  /\ slowsync_events = [n \in Node |-> 0]
  /\ requested = 0
  /\ roundStart = [uns |-> 0, cap |-> 0]

\* ISR (SPI_STC_vect): a byte has arrived on node n's side of the bus
Capture(n) ==
  /\ arrived[n] < MaxArrivals
  /\ arrived' = [arrived EXCEPT ![n] = @ + 1]
  /\ IF LogFull(our_log_head[n], our_log_tail[n])
       THEN /\ SLOWSYNC_LED' = [SLOWSYNC_LED EXCEPT ![n] = TRUE]
            /\ slowsync_events' = [slowsync_events EXCEPT ![n] = @ + 1]
            /\ UNCHANGED <<our_log, our_log_tail, bytes_unsynched, captured>>
       ELSE /\ our_log' = [our_log EXCEPT ![n][our_log_tail[n]] = SPDR(n, arrived[n] + 1)]
            /\ our_log_tail' = [our_log_tail EXCEPT ![n] = (@ + 1) % LOG_SIZE]
            /\ bytes_unsynched' = [bytes_unsynched EXCEPT ![n] = @ + 1]
            /\ captured' = [captured EXCEPT ![n] = Append(@, SPDR(n, arrived[n] + 1))]
            /\ UNCHANGED <<SLOWSYNC_LED, slowsync_events>>
  /\ UNCHANGED <<their_log, our_log_head, their_log_head, their_log_tail,
                 bytes_unreported, SLOWDUMP_LED, UNSYNCHRONIZED_LED, DEADLOCKED_LED,
                 mainVars, wireVars, out, syncs, passSync, capAtReq, requested,
                 roundStart>>
  /\ UNCHANGED nonSyncVars

\* an alpha_synchronize that bails only on the node's role
BailsOnRoleOnly(n) == n # "alpha"

\* alpha_synchronize's two early returns: if (our_id != alpha) return 0;
\* if (bytes_unsynched == 0) return 0;
alpha_synchronize_bails(n) == n # "alpha" \/ bytes_unsynched[n] = 0

\* loop(): on alpha, alpha_synchronize is entered and bails if there is
\* nothing to synchronise; beta goes straight to the reporting part
Loop(n) ==
  /\ pc[n] = "loop"
  /\ IF n = "alpha" /\ ~alpha_synchronize_bails(n)
       THEN /\ bytes_synched' = 0
            /\ roundStart' = [uns |-> bytes_unsynched[n], cap |-> Len(captured[n])]
            /\ pc' = [pc EXCEPT ![n] = "request"]
            /\ synched' = synched
       ELSE /\ bytes_synched' = bytes_synched
            /\ roundStart' = roundStart
            /\ pc' = [pc EXCEPT ![n] = "report"]
            /\ synched' = IF n = "alpha" THEN 0 ELSE synched
  /\ UNCHANGED <<logVars, countVars, ledVars, tx_uhead, tx_i, dec_tmp, start, rep_i,
                 wireVars, arrived, captured, out, syncs, passSync, capAtReq,
                 slowsync_events, requested>>
  /\ UNCHANGED nonSyncVars

\* Wire.requestFrom(I2C_SLAVE_ADDRESS, bytes_unsynched): the request goes out;
\* the call returns when the slave has answered
AlphaRequest ==
  /\ pc["alpha"] = "request"
  /\ wire_deliver = <<>>
  /\ wire_req' = bytes_unsynched["alpha"]
  /\ wire_rx' = <<>>
  /\ capAtReq' = [n \in Node |-> Len(captured[n])]
  /\ requested' = bytes_unsynched["alpha"]
  /\ pc' = [pc EXCEPT !["alpha"] = "requesting"]
  /\ UNCHANGED <<logVars, countVars, ledVars, bytes_synched, tx_uhead, tx_i,
                 dec_tmp, start, rep_i, wire_tx, wire_deliver, arrived, captured,
                 out, syncs, passSync, slowsync_events, roundStart>>
  /\ synched' = synched
  /\ UNCHANGED nonSyncVars

\* beta_synchronize_tx, the slave's request callback: beta's unsynchronised
\* bytes from unsynched_head on; the master receives at most what it asked for
BetaTx ==
  /\ wire_req >= 0
  /\ LET from == unsynched_head(bytes_unsynched["beta"], our_log_tail["beta"], LOG_SIZE)
         sent == LogSpan(our_log["beta"], from, bytes_unsynched["beta"])
     IN  wire_rx' = Take(sent, wire_req)
  /\ wire_req' = -1
  /\ UNCHANGED <<logVars, countVars, ledVars, mainVars, wire_tx, wire_deliver,
                 histVars>>
  /\ UNCHANGED nonSyncVars

\* requestFrom has returned and the LED is left as it was
AlphaLedLeftOff ==
  /\ pc["alpha"] = "requesting"
  /\ wire_req = -1
  /\ DEADLOCKED_LED' = DEADLOCKED_LED
  /\ pc' = [pc EXCEPT !["alpha"] = "wait"]
  /\ UNCHANGED <<logVars, countVars, SLOWSYNC_LED, SLOWDUMP_LED, UNSYNCHRONIZED_LED,
                 bytes_synched, tx_uhead, tx_i, dec_tmp, start, rep_i, wireVars,
                 histVars>>
  /\ synched' = synched
  /\ UNCHANGED nonSyncVars

\* requestFrom has returned: digitalWrite(DEADLOCKED_LED, HIGH)
AlphaLedOn ==
  /\ pc["alpha"] = "requesting"
  /\ wire_req = -1
  /\ DEADLOCKED_LED' = [DEADLOCKED_LED EXCEPT !["alpha"] = TRUE]
  /\ pc' = [pc EXCEPT !["alpha"] = "wait"]
  /\ UNCHANGED <<logVars, countVars, SLOWSYNC_LED, SLOWDUMP_LED, UNSYNCHRONIZED_LED,
                 bytes_synched, tx_uhead, tx_i, dec_tmp, start, rep_i, wireVars,
                 histVars>>
  /\ synched' = synched
  /\ UNCHANGED nonSyncVars

\* a wait that is given up whatever is available
AlphaWaitTimeout ==
  /\ pc["alpha"] = "wait"
  /\ pc' = [pc EXCEPT !["alpha"] = "recv"]
  /\ UNCHANGED <<logVars, countVars, ledVars, bytes_synched, tx_uhead, tx_i,
                 dec_tmp, start, rep_i, wireVars, histVars>>
  /\ synched' = synched
  /\ UNCHANGED nonSyncVars

\* while (Wire.available() < bytes_unsynched) {}: the loop is left
AlphaWait ==
  /\ pc["alpha"] = "wait"
  /\ ~(Len(wire_rx) < bytes_unsynched["alpha"])
  /\ pc' = [pc EXCEPT !["alpha"] = "recv"]
  /\ UNCHANGED <<logVars, countVars, ledVars, bytes_synched, tx_uhead, tx_i,
                 dec_tmp, start, rep_i, wireVars, histVars>>
  /\ synched' = synched
  /\ UNCHANGED nonSyncVars

\* while (Wire.available() > 0) { ... bytes_synched++; }: one byte, or the
\* end of the loop and digitalWrite(DEADLOCKED_LED, LOW)
AlphaRecv ==
  /\ pc["alpha"] = "recv"
  /\ IF Len(wire_rx) > 0
       THEN LET r == Receive(<<Head(wire_rx)>>, their_log["alpha"],
                             their_log_head["alpha"], their_log_tail["alpha"])
            IN  /\ their_log' = [their_log EXCEPT !["alpha"] = r.log]
                /\ their_log_tail' = [their_log_tail EXCEPT !["alpha"] = r.tail]
                /\ SLOWDUMP_LED' = [SLOWDUMP_LED EXCEPT !["alpha"] = @ \/ r.dropped]
                /\ wire_rx' = Tail(wire_rx)
                /\ bytes_synched' = bytes_synched + 1
                /\ UNCHANGED <<DEADLOCKED_LED, pc>>
       ELSE /\ DEADLOCKED_LED' = [DEADLOCKED_LED EXCEPT !["alpha"] = FALSE]
            /\ pc' = [pc EXCEPT !["alpha"] = "uhead"]
            /\ UNCHANGED <<their_log, their_log_tail, SLOWDUMP_LED, wire_rx,
                           bytes_synched>>
  /\ UNCHANGED <<our_log, our_log_head, our_log_tail, their_log_head, countVars,
                 SLOWSYNC_LED, UNSYNCHRONIZED_LED, tx_uhead, tx_i, dec_tmp, start,
                 rep_i, wire_req, wire_tx, wire_deliver, histVars>>
  /\ synched' = synched
  /\ UNCHANGED nonSyncVars

\* int uhead = unsynched_head(...); Wire.beginTransmission(I2C_SLAVE_ADDRESS);
AlphaUhead ==
  /\ pc["alpha"] = "uhead"
  /\ tx_uhead' = unsynched_head(bytes_unsynched["alpha"], our_log_tail["alpha"], LOG_SIZE)
  /\ tx_i' = 0
  /\ wire_tx' = <<>>
  /\ pc' = [pc EXCEPT !["alpha"] = "tx"]
  /\ UNCHANGED <<logVars, countVars, ledVars, bytes_synched, dec_tmp, start, rep_i,
                 wire_req, wire_rx, wire_deliver, histVars>>
  /\ synched' = synched
  /\ UNCHANGED nonSyncVars

\* for (int i = 0; i < bytes_unsynched; i++) Wire.write(...): one byte, or
\* the end of the loop and Wire.endTransmission()
AlphaTx ==
  /\ pc["alpha"] = "tx"
  /\ IF tx_i < bytes_unsynched["alpha"]
       THEN /\ wire_tx' = Append(wire_tx,
                 ReadLog(our_log["alpha"], CRem(tx_uhead + tx_i, LOG_SIZE)))
            /\ tx_i' = tx_i + 1
            /\ UNCHANGED <<wire_deliver, pc>>
       ELSE /\ wire_deliver' = wire_tx
            /\ pc' = [pc EXCEPT !["alpha"] = "mismatch"]
            /\ UNCHANGED <<wire_tx, tx_i>>
  /\ UNCHANGED <<logVars, countVars, ledVars, bytes_synched, tx_uhead, dec_tmp,
                 start, rep_i, wire_req, wire_rx, histVars>>
  /\ synched' = synched
  /\ UNCHANGED nonSyncVars

\* if (bytes_unsynched != bytes_synched) digitalWrite(UNSYNCHRONIZED_LED, HIGH);
AlphaMismatch ==
  /\ pc["alpha"] = "mismatch"
  /\ UNSYNCHRONIZED_LED' =
       [UNSYNCHRONIZED_LED EXCEPT !["alpha"] = @ \/ (bytes_unsynched["alpha"] # bytes_synched)]
  /\ pc' = [pc EXCEPT !["alpha"] = "dec_read"]
  /\ UNCHANGED <<logVars, countVars, SLOWSYNC_LED, SLOWDUMP_LED, DEADLOCKED_LED,
                 bytes_synched, tx_uhead, tx_i, dec_tmp, start, rep_i, wireVars,
                 histVars>>
  /\ synched' = synched
  /\ UNCHANGED nonSyncVars

\* bytes_unsynched -= bytes_synched: the read of the volatile
AlphaDecRead ==
  /\ pc["alpha"] = "dec_read"
  /\ dec_tmp' = bytes_unsynched["alpha"]
  /\ pc' = [pc EXCEPT !["alpha"] = "dec_write"]
  /\ UNCHANGED <<logVars, countVars, ledVars, bytes_synched, tx_uhead, tx_i, start,
                 rep_i, wireVars, histVars>>
  /\ synched' = synched
  /\ UNCHANGED nonSyncVars

\* bytes_unsynched -= bytes_synched: the write back
AlphaDecWrite ==
  /\ pc["alpha"] = "dec_write"
  /\ bytes_unsynched' = [bytes_unsynched EXCEPT !["alpha"] = dec_tmp - bytes_synched]
  /\ pc' = [pc EXCEPT !["alpha"] = "inc_unrep"]
  /\ UNCHANGED <<logVars, bytes_unreported, ledVars, bytes_synched, tx_uhead, tx_i,
                 dec_tmp, start, rep_i, wireVars, histVars>>
  /\ synched' = synched
  /\ UNCHANGED nonSyncVars

\* bytes_unreported += bytes_synched; return bytes_synched;
AlphaIncUnrep ==
  /\ pc["alpha"] = "inc_unrep"
  /\ bytes_unreported' = [bytes_unreported EXCEPT !["alpha"] = @ + bytes_synched]
  /\ syncs' = [syncs EXCEPT !["alpha"] = @ + 1]
  /\ synched' = bytes_synched
  /\ pc' = [pc EXCEPT !["alpha"] = "report"]
  /\ UNCHANGED <<logVars, bytes_unsynched, ledVars, bytes_synched, tx_uhead, tx_i,
                 dec_tmp, start, rep_i, wireVars, arrived, captured, out, passSync,
                 capAtReq, slowsync_events, requested, roundStart>>
  /\ UNCHANGED nonSyncVars

\* beta_synchronize_rx(bytes_synched), the slave's receive callback, with
\* bytes_synched the number of bytes delivered
BetaRx ==
  /\ wire_deliver # <<>>
  /\ LET count == Len(wire_deliver)
         r == Receive(wire_deliver, their_log["beta"], their_log_head["beta"],
                      their_log_tail["beta"])
     IN  /\ their_log' = [their_log EXCEPT !["beta"] = r.log]
         /\ their_log_tail' = [their_log_tail EXCEPT !["beta"] = r.tail]
         /\ SLOWDUMP_LED' = [SLOWDUMP_LED EXCEPT !["beta"] = @ \/ r.dropped]
         /\ UNSYNCHRONIZED_LED' =
              [UNSYNCHRONIZED_LED EXCEPT !["beta"] = @ \/ (bytes_unsynched["beta"] # count)]
         /\ bytes_unsynched' = [bytes_unsynched EXCEPT !["beta"] = @ - count]
         /\ bytes_unreported' = [bytes_unreported EXCEPT !["beta"] = @ + count]
  /\ wire_deliver' = <<>>
  /\ syncs' = [syncs EXCEPT !["beta"] = @ + 1]
  /\ UNCHANGED <<our_log, our_log_head, our_log_tail, their_log_head, SLOWSYNC_LED,
                 DEADLOCKED_LED, mainVars, wire_req, wire_rx, wire_tx, arrived,
                 captured, out, passSync, capAtReq, slowsync_events, requested,
                 roundStart>>
  /\ UNCHANGED nonSyncVars

\* if (bytes_unreported > 0) { int start = unreported_head(...); ...
Report(n) ==
  /\ pc[n] = "report"
  /\ IF bytes_unreported[n] > 0
       THEN /\ start' = [start EXCEPT ![n] =
                 unreported_head(bytes_unreported[n], bytes_unsynched[n],
                                 our_log_tail[n], LOG_SIZE)]
            /\ rep_i' = [rep_i EXCEPT ![n] = 0]
            /\ out' = [out EXCEPT ![n] = <<>>]
            /\ passSync' = [passSync EXCEPT ![n] = syncs[n]]
            /\ pc' = [pc EXCEPT ![n] = "rep_loop"]
       ELSE /\ pc' = [pc EXCEPT ![n] = "loop"]
            /\ UNCHANGED <<start, rep_i, out, passSync>>
  /\ UNCHANGED <<logVars, countVars, ledVars, bytes_synched, tx_uhead, tx_i, dec_tmp,
                 wireVars, arrived, captured, syncs, capAtReq, slowsync_events,
                 requested, roundStart>>
  /\ synched' = synched
  /\ UNCHANGED nonSyncVars

\* a reporting loop that prints the node's own byte first on both nodes
RepLoopOursFirst(n) ==
  /\ pc[n] = "rep_loop"
  /\ IF rep_i[n] < bytes_unreported[n]
       THEN LET at == CRem(start[n] + rep_i[n], LOG_SIZE)
                ours == ReadLog(our_log[n], at)
                theirs == ReadLog(their_log[n], at)
            IN  /\ out' = [out EXCEPT ![n] = Append(@,
                      <<ours, theirs>>)]
                /\ rep_i' = [rep_i EXCEPT ![n] = @ + 1]
                /\ pc' = pc
       ELSE /\ pc' = [pc EXCEPT ![n] = "loop"]
            /\ UNCHANGED <<out, rep_i>>
  /\ UNCHANGED <<logVars, countVars, ledVars, bytes_synched, tx_uhead, tx_i, dec_tmp,
                 start, wireVars, arrived, captured, syncs, passSync, capAtReq,
                 slowsync_events, requested, roundStart>>
  /\ synched' = synched
  /\ UNCHANGED nonSyncVars

\* for (int i = 0; i < bytes_unreported; i++) { Serial.print ... }: one pair
\* (alpha prints ours/theirs, beta theirs/ours), or the end of the loop
RepLoop(n) ==
  /\ pc[n] = "rep_loop"
  /\ IF rep_i[n] < bytes_unreported[n]
       THEN LET at == CRem(start[n] + rep_i[n], LOG_SIZE)
                ours == ReadLog(our_log[n], at)
                theirs == ReadLog(their_log[n], at)
            IN  /\ out' = [out EXCEPT ![n] = Append(@,
                      IF n = "alpha" THEN <<ours, theirs>> ELSE <<theirs, ours>>)]
                /\ rep_i' = [rep_i EXCEPT ![n] = @ + 1]
                /\ pc' = pc
       ELSE /\ pc' = [pc EXCEPT ![n] = "loop"]
            /\ UNCHANGED <<out, rep_i>>
  /\ UNCHANGED <<logVars, countVars, ledVars, bytes_synched, tx_uhead, tx_i, dec_tmp,
                 start, wireVars, arrived, captured, syncs, passSync, capAtReq,
                 slowsync_events, requested, roundStart>>
  /\ synched' = synched
  /\ UNCHANGED nonSyncVars

SyncNext ==
  \/ \E n \in Node : Capture(n)
  \/ \E n \in Node : Loop(n)
  \/ AlphaRequest \/ BetaTx \/ AlphaLedOn \/ AlphaWait \/ AlphaRecv
  \/ AlphaUhead \/ AlphaTx \/ AlphaMismatch \/ AlphaDecRead \/ AlphaDecWrite
  \/ AlphaIncUnrep \/ BetaRx
  \/ \E n \in Node : Report(n)
  \/ \E n \in Node : RepLoop(n)

\* the nodes' variables while another part runs
SyncOff == SyncInit

(***************************************************************************)
(* buff_write and buff_read called with any capacity, a power of two or    *)
(* not, one whole call at a time.                                          *)
(***************************************************************************)
\* the largest capacity the functions are called with
MaxCapacity == 6

IsPowerOfTwo(c) == \E k \in 0 .. 16 : c = 2 ^ k

\* a slot index taken with the modulus operator
SlotByModulo(count, cap) == count % cap

\* unsigned int tail = *writes & (capacity - 1), and the same for head
SlotAt(count, cap) == BitAnd(count, cap - 1)

CapInit ==
  /\ q_capacity \in 1 .. MaxCapacity
  /\ q_buff = [i \in 0 .. (q_capacity - 1) |-> 0]
  /\ \E c \in StartCounts : q_reads = c /\ q_writes = c
  /\ q_ret = "none"
  /\ q_written = <<>> /\ q_readSeq = <<>>
  /\ q_clobbered = FALSE /\ q_refused = FALSE

\* the variables of this part while another part runs
CapOff ==
  /\ q_capacity = 1 /\ q_buff = [i \in 0 .. 0 |-> 0]
  /\ q_reads = 0 /\ q_writes = 0 /\ q_ret = "off"
  /\ q_written = <<>> /\ q_readSeq = <<>>
  /\ q_clobbered = FALSE /\ q_refused = FALSE

\* one call of buff_write; the item is the ordinal of the write
CapWrite ==
  /\ q_ret # "off"
  /\ Len(q_written) < q_capacity + ExtraWrites
  /\ IF ItemsInBuffer(q_writes, q_reads) = q_capacity
       THEN /\ q_ret' = "write_false"
            /\ q_refused' = TRUE
            /\ UNCHANGED <<q_buff, q_writes, q_written, q_clobbered>>
       ELSE LET tail == SlotAt(q_writes, q_capacity)
                item == Len(q_written) + 1
            IN  /\ q_buff' = [q_buff EXCEPT ![tail] = item]
                /\ q_writes' = ToUnsigned(q_writes + 1)
                /\ q_written' = Append(q_written, item)
                /\ q_clobbered' = (q_clobbered \/ q_buff[tail] > Len(q_readSeq))
                /\ q_ret' = "write_true"
                /\ UNCHANGED q_refused
  /\ UNCHANGED <<q_capacity, q_reads, q_readSeq>>
  /\ UNCHANGED nonCapVars

\* one call of buff_read
CapRead ==
  /\ q_ret # "off"
  /\ IF q_writes = q_reads
       THEN /\ q_ret' = "read_false"
            /\ q_refused' = TRUE
            /\ UNCHANGED <<q_reads, q_readSeq>>
       ELSE LET head == SlotAt(q_reads, q_capacity)
            IN  /\ q_readSeq' = Append(q_readSeq, q_buff[head])
                /\ q_reads' = ToUnsigned(q_reads + 1)
                /\ q_ret' = "read_true"
                /\ UNCHANGED q_refused
  /\ UNCHANGED <<q_capacity, q_buff, q_writes, q_written, q_clobbered>>
  /\ UNCHANGED nonCapVars

CapNext == CapWrite \/ CapRead

(***************************************************************************)
(* The single-buffer capture sketch: the SPI interrupt handler fills buff, *)
(* loop() prints it when the handler has found it full.                    *)
(***************************************************************************)
\* the size of the buffer in the model (buff_size is 512 in the sketch)
buff_size == 3

\* the number of bytes that arrive on the bus: three fills and two more
MaxSketchBytes == 3 * buff_size + 2

\* a handler that starts again at index 0 when the buffer is full
SketchISRWraps(byte) ==
  /\ sk_buff' = [sk_buff EXCEPT ![pos % buff_size] = byte]
  /\ pos' = (pos % buff_size) + 1
  /\ sk_fill' = Append(sk_fill, byte)
  /\ buffer_full' = (buffer_full \/ pos = buff_size)

\* ISR (SPI_STC_vect):
\*   if (pos < buff_size) { buff[pos++] = SPDR; } else { buffer_full = true; }
SketchISR(byte) ==
  IF pos < buff_size
    THEN /\ sk_buff' = [sk_buff EXCEPT ![pos] = byte]
         /\ pos' = pos + 1
         /\ sk_fill' = Append(sk_fill, byte)
         /\ buffer_full' = buffer_full
    ELSE /\ buffer_full' = TRUE
         /\ UNCHANGED <<sk_buff, pos, sk_fill>>

\* setup(): pos = 0; buffer_full = false; flushes = 0; SPIE set
SketchInit ==
  /\ sk_buff = [i \in 0 .. (buff_size - 1) |-> 0]
  /\ pos = 0 /\ buffer_full = FALSE /\ flushes = 0
  /\ SPIE = TRUE /\ SPIF = FALSE /\ sk_SPDR = 0
  /\ sk_pc = "loop" /\ sk_i = 0
  /\ sk_arrived = 0 /\ sk_fill = <<>> /\ sk_printed = <<>>

\* the sketch's variables while another part runs
SketchOff ==
  /\ sk_buff = [i \in 0 .. (buff_size - 1) |-> 0]
  /\ pos = 0 /\ buffer_full = FALSE /\ flushes = 0
  /\ SPIE = FALSE /\ SPIF = FALSE /\ sk_SPDR = 0
  /\ sk_pc = "off" /\ sk_i = 0
  /\ sk_arrived = 0 /\ sk_fill = <<>> /\ sk_printed = <<>>

\* a byte has been shifted in: it is in SPDR and the interrupt flag is set;
\* with the interrupt enabled the handler runs at once
SketchArrive ==
  /\ sk_pc # "off"
  /\ sk_arrived < MaxSketchBytes
  /\ sk_arrived' = sk_arrived + 1
  /\ sk_SPDR' = sk_arrived + 1
  /\ IF SPIE
       THEN SketchISR(sk_arrived + 1) /\ SPIF' = FALSE
       ELSE SPIF' = TRUE /\ UNCHANGED <<sk_buff, pos, sk_fill, buffer_full>>
  /\ UNCHANGED <<flushes, SPIE, sk_pc, sk_i, sk_printed>>
  /\ UNCHANGED nonSketchVars

\* the interrupt has been enabled again with the flag still set: the handler
\* runs with what SPDR holds
SketchPendingISR ==
  /\ SPIE /\ SPIF
  /\ SketchISR(sk_SPDR)
  /\ SPIF' = FALSE
  /\ UNCHANGED <<flushes, SPIE, sk_SPDR, sk_pc, sk_i, sk_arrived, sk_printed>>
  /\ UNCHANGED nonSketchVars

\* loop(): if (buffer_full) {
SketchLoopTest ==
  /\ sk_pc = "loop"
  /\ sk_pc' = IF buffer_full THEN "disable" ELSE "loop"
  /\ UNCHANGED <<sk_buff, pos, buffer_full, flushes, SPIE, SPIF, sk_SPDR, sk_i,
                 sk_arrived, sk_fill, sk_printed>>
  /\ UNCHANGED nonSketchVars

\* SPCR &= ~(1 << SPIE); for (int i = 0; ...
SketchDisable ==
  /\ sk_pc = "disable"
  /\ SPIE' = FALSE
  /\ sk_i' = 0
  /\ sk_printed' = <<>>
  /\ sk_pc' = "print"
  /\ UNCHANGED <<sk_buff, pos, buffer_full, flushes, SPIF, sk_SPDR, sk_arrived,
                 sk_fill>>
  /\ UNCHANGED nonSketchVars

\* for (...; i < buff_size; i++) Serial.println(buff[i], HEX): one line, or
\* the end of the loop and Serial.println(flushes++, DEC)
SketchPrint ==
  /\ sk_pc = "print"
  /\ IF sk_i < buff_size
       THEN /\ sk_printed' = Append(sk_printed, sk_buff[sk_i])
            /\ sk_i' = sk_i + 1
            /\ UNCHANGED <<flushes, sk_pc>>
       ELSE /\ flushes' = flushes + 1
            /\ sk_pc' = "reset_pos"
            /\ UNCHANGED <<sk_printed, sk_i>>
  /\ UNCHANGED <<sk_buff, pos, buffer_full, SPIE, SPIF, sk_SPDR, sk_arrived,
                 sk_fill>>
  /\ UNCHANGED nonSketchVars

\* pos = 0;
SketchResetPos ==
  /\ sk_pc = "reset_pos"
  /\ pos' = 0
  /\ sk_fill' = <<>>
  /\ sk_pc' = "reset_full"
  /\ UNCHANGED <<sk_buff, buffer_full, flushes, SPIE, SPIF, sk_SPDR, sk_i,
                 sk_arrived, sk_printed>>
  /\ UNCHANGED nonSketchVars

\* buffer_full = false;
SketchResetFull ==
  /\ sk_pc = "reset_full"
  /\ buffer_full' = FALSE
  /\ sk_pc' = "enable"
  /\ UNCHANGED <<sk_buff, pos, flushes, SPIE, SPIF, sk_SPDR, sk_i, sk_arrived,
                 sk_fill, sk_printed>>
  /\ UNCHANGED nonSketchVars

\* SPCR |= 1 << SPIE;
SketchEnable ==
  /\ sk_pc = "enable"
  /\ SPIE' = TRUE
  /\ sk_pc' = "loop"
  /\ UNCHANGED <<sk_buff, pos, buffer_full, flushes, SPIF, sk_SPDR, sk_i,
                 sk_arrived, sk_fill, sk_printed>>
  /\ UNCHANGED nonSketchVars

SketchNext ==
  \/ SketchArrive \/ SketchPendingISR
  \/ SketchLoopTest \/ SketchDisable \/ SketchPrint
  \/ SketchResetPos \/ SketchResetFull \/ SketchEnable

(***************************************************************************)
(* The first version of the two-node sketch (spi_sniff.ino): the capture   *)
(* handler with a write position that wraps, counts held in a byte.        *)
(***************************************************************************)
\* the number of bytes that arrive at each node: a full log and one more
MaxFirstArrivals == LOG_SIZE + 1

\* the number of times alpha_synchronize is run
MaxFirstRounds == 2

\* conversion to byte (uint8_t)
ToByte(x) == x % 256

LedNames == {"SLOWSYNC", "SLOWDUMP", "UNSYNCHRONIZED", "DEADLOCKED"}

\* byte unsynced_head(byte unsynced, byte log_pos, byte log_size)
unsynced_head(unsynced, log_pos, log_size) ==
  ToByte(CRem((log_pos - unsynced - 1) + 2 * log_size, log_size))

\* for (byte i = 0; i < bytes_unsynced; i++)
\*   Wire.write(our_log[(uhead + i) % LOG_SIZE]);
FirstSpan(log, uhead, count) ==
  [i \in 1 .. count |-> log[(uhead + i - 1) % LOG_SIZE]]

FirstInit ==
  /\ fs_our_log = [n \in Node |-> [i \in LogIndex |-> 0]]
  /\ fs_their_log = [n \in Node |-> [i \in LogIndex |-> 0]]
  /\ our_log_pos = [n \in Node |-> 0]
  /\ fs_their_tail = [n \in Node |-> 0]
  /\ bytes_unsynced = [n \in Node |-> 0]
  /\ fs_led = [n \in Node |-> [l \in LedNames |-> FALSE]]
  /\ fs_pc = "idle" /\ bytes_synced = 0 /\ fs_tmp = 0 /\ fs_rx = <<>>
  /\ fs_arrived = [n \in Node |-> 0]
  /\ fs_clobbered = [n \in Node |-> FALSE]
  /\ fs_rounds = 0

\* the variables of this part while another part runs
FirstOff ==
  /\ fs_our_log = [n \in Node |-> [i \in LogIndex |-> 0]]
  /\ fs_their_log = [n \in Node |-> [i \in LogIndex |-> 0]]
  /\ our_log_pos = [n \in Node |-> 0]
  /\ fs_their_tail = [n \in Node |-> 0]
  /\ bytes_unsynced = [n \in Node |-> 0]
  /\ fs_led = [n \in Node |-> [l \in LedNames |-> FALSE]]
  /\ fs_pc = "off" /\ bytes_synced = 0 /\ fs_tmp = 0 /\ fs_rx = <<>>
  /\ fs_arrived = [n \in Node |-> 0]
  /\ fs_clobbered = [n \in Node |-> FALSE]
  /\ fs_rounds = 0

ExtraOff == CapOff /\ SketchOff /\ FirstOff

\* ISR (SPI_STC_vect): the position goes back to 0 at LOG_SIZE, the byte is
\* stored, the count grows by one and is held at LOG_SIZE
FirstCapture(n) ==
  /\ fs_pc # "off"
  /\ fs_arrived[n] < MaxFirstArrivals
  /\ fs_arrived' = [fs_arrived EXCEPT ![n] = @ + 1]
  /\ LET wraps == our_log_pos[n] = LOG_SIZE
         at == IF wraps THEN 0 ELSE our_log_pos[n]
         count == ToByte(bytes_unsynced[n] + 1)
     IN  /\ fs_led' = [fs_led EXCEPT ![n]["SLOWSYNC"] = @ \/ wraps]
         /\ fs_our_log' = [fs_our_log EXCEPT ![n][at] = SPDR(n, fs_arrived[n] + 1)]
         /\ our_log_pos' = [our_log_pos EXCEPT ![n] = at + 1]
         /\ bytes_unsynced' = [bytes_unsynced EXCEPT ![n] =
                                 IF count > LOG_SIZE THEN LOG_SIZE ELSE count]
         /\ fs_clobbered' = [fs_clobbered EXCEPT ![n] =
                               @ \/ bytes_unsynced[n] >= LOG_SIZE]
  /\ UNCHANGED <<fs_their_log, fs_their_tail, fs_pc, bytes_synced, fs_tmp, fs_rx>>
  /\ fs_rounds' = fs_rounds
  /\ UNCHANGED nonFirstVars

\* alpha_synchronize: byte bytes_synced = 0; Wire.requestFrom(..., bytes_unsynced),
\* answered by beta_synchronize_tx; digitalWrite(DEADLOCKED_LED, HIGH)
FirstRequest ==
  /\ fs_pc = "idle"
  /\ fs_rounds < MaxFirstRounds
  /\ fs_rounds' = fs_rounds + 1
  /\ LET uhead == unsynced_head(bytes_unsynced["beta"], 0, LOG_SIZE)
         sent == FirstSpan(fs_our_log["beta"], uhead, bytes_unsynced["beta"])
     IN  fs_rx' = Take(sent, bytes_unsynced["alpha"])
  /\ bytes_synced' = 0
  /\ fs_led' = [fs_led EXCEPT !["alpha"]["DEADLOCKED"] = TRUE]
  /\ fs_pc' = "wait"
  /\ UNCHANGED <<fs_our_log, fs_their_log, our_log_pos, fs_their_tail,
                 bytes_unsynced, fs_tmp, fs_arrived, fs_clobbered>>
  /\ UNCHANGED nonFirstVars

\* while (Wire.available() < bytes_unsynced) {} is left, and the receive
\* loop takes every byte available; digitalWrite(DEADLOCKED_LED, LOW)
FirstReceive ==
  /\ fs_pc = "wait"
  /\ ~(Len(fs_rx) < bytes_unsynced["alpha"])
  /\ LET r == Receive(fs_rx, fs_their_log["alpha"], 0, fs_their_tail["alpha"])
     IN  /\ fs_their_log' = [fs_their_log EXCEPT !["alpha"] = r.log]
         /\ fs_their_tail' = [fs_their_tail EXCEPT !["alpha"] = r.tail]
         /\ fs_led' = [fs_led EXCEPT !["alpha"]["SLOWDUMP"] = @ \/ r.dropped,
                                     !["alpha"]["DEADLOCKED"] = FALSE]
  /\ bytes_synced' = ToByte(Len(fs_rx))
  /\ fs_rx' = <<>>
  /\ fs_pc' = "tx"
  /\ UNCHANGED <<fs_our_log, our_log_pos, bytes_unsynced, fs_tmp, fs_arrived,
                 fs_clobbered>>
  /\ fs_rounds' = fs_rounds
  /\ UNCHANGED nonFirstVars

\* alpha transmits bytes_unsynced bytes; beta_synchronize_rx(count) stores
\* them and does bytes_unsynced -= bytes_synced on its byte
FirstTransmit ==
  /\ fs_pc = "tx"
  /\ LET uhead == unsynced_head(bytes_unsynced["alpha"], 0, LOG_SIZE)
         sent == FirstSpan(fs_our_log["alpha"], uhead, bytes_unsynced["alpha"])
         r == Receive(sent, fs_their_log["beta"], 0, fs_their_tail["beta"])
     IN  /\ fs_their_log' = [fs_their_log EXCEPT !["beta"] = r.log]
         /\ fs_their_tail' = [fs_their_tail EXCEPT !["beta"] = r.tail]
         /\ fs_led' = [fs_led EXCEPT
                         !["beta"]["SLOWDUMP"] = @ \/ r.dropped,
                         !["beta"]["UNSYNCHRONIZED"] =
                            @ \/ bytes_unsynced["beta"] # Len(sent),
                         !["alpha"]["UNSYNCHRONIZED"] =
                            @ \/ bytes_unsynced["alpha"] # bytes_synced]
         /\ bytes_unsynced' = [bytes_unsynced EXCEPT !["beta"] = ToByte(@ - Len(sent))]
  /\ fs_pc' = "dec_read"
  /\ UNCHANGED <<fs_our_log, our_log_pos, bytes_synced, fs_tmp, fs_rx, fs_arrived,
                 fs_clobbered>>
  /\ fs_rounds' = fs_rounds
  /\ UNCHANGED nonFirstVars

\* alpha's bytes_unsynced -= bytes_synced: the read of the volatile
FirstDecRead ==
  /\ fs_pc = "dec_read"
  /\ fs_tmp' = bytes_unsynced["alpha"]
  /\ fs_pc' = "dec_write"
  /\ UNCHANGED <<fs_our_log, fs_their_log, our_log_pos, fs_their_tail,
                 bytes_unsynced, fs_led, bytes_synced, fs_rx, fs_arrived,
                 fs_clobbered>>
  /\ fs_rounds' = fs_rounds
  /\ UNCHANGED nonFirstVars

\* alpha's bytes_unsynced -= bytes_synced: the write back
FirstDecWrite ==
  /\ fs_pc = "dec_write"
  /\ bytes_unsynced' = [bytes_unsynced EXCEPT !["alpha"] = ToByte(fs_tmp - bytes_synced)]
  /\ fs_pc' = "idle"
  /\ UNCHANGED <<fs_our_log, fs_their_log, our_log_pos, fs_their_tail, fs_led,
                 bytes_synced, fs_tmp, fs_rx, fs_arrived, fs_clobbered>>
  /\ fs_rounds' = fs_rounds
  /\ UNCHANGED nonFirstVars

FirstNext ==
  \/ \E n \in Node : FirstCapture(n)
  \/ FirstRequest \/ FirstReceive \/ FirstTransmit
  \/ FirstDecRead \/ FirstDecWrite

(***************************************************************************)
(* Specifications.                                                         *)
(***************************************************************************)
InitRing == RingInit /\ IxOff /\ SyncOff /\ ExtraOff

SpecRing == InitRing /\ [][RingNext]_vars

InitItems == ItemsInit /\ IxOff /\ SyncOff /\ ExtraOff

SpecItems == InitItems /\ [][ItemsNext]_vars

InitIndex == IxInit /\ RingOff /\ SyncOff /\ ExtraOff

SpecIndex == InitIndex /\ [][IxNext]_vars

InitSync == SyncInit /\ RingOff /\ IxOff /\ ExtraOff

SpecSync == InitSync /\ [][SyncNext]_vars

InitAnyCap == CapInit /\ RingOff /\ IxOff /\ SyncOff /\ SketchOff /\ FirstOff

SpecAnyCap == InitAnyCap /\ [][CapNext]_vars

InitSketch == SketchInit /\ RingOff /\ IxOff /\ SyncOff /\ CapOff /\ FirstOff

SpecSketch == InitSketch /\ [][SketchNext]_vars

\* loop() runs for ever and a pending interrupt is served; nothing obliges
\* the bus to deliver another byte
SketchFairness ==
  /\ WF_vars(SketchLoopTest) /\ WF_vars(SketchDisable) /\ WF_vars(SketchPrint)
  /\ WF_vars(SketchResetPos) /\ WF_vars(SketchResetFull) /\ WF_vars(SketchEnable)
  /\ WF_vars(SketchPendingISR)

SpecSketchFair == InitSketch /\ [][SketchNext]_vars /\ SketchFairness

InitFirst == FirstInit /\ RingOff /\ IxOff /\ SyncOff /\ CapOff /\ SketchOff

SpecFirst == InitFirst /\ [][FirstNext]_vars

(***************************************************************************)
(* Ring buffer properties.                                                 *)
(***************************************************************************)
\* C1: the number of unread items never exceeds capacity, and a buff_write
\* that has returned returned false iff the buffer held exactly capacity
\* unread items when the call sampled the counters.
C1_CapacityInvariant ==
  /\ Occupancy <= capacity
  /\ (pcW = "idle" /\ wret # "none") => ((wret = "false") <=> (occAtCall = capacity))

\* a write refused on a full buffer whose write counter has wrapped
C1_Witness ==
  /\ pcW = "idle" /\ wret = "false" /\ occAtCall = capacity
  /\ writes < reads

\* C2: the item count buff_write computes equals the true occupancy
\* (writes - reads) mod 2^16 for every pair of counters with occupancy in
\* 0..capacity; a full buffer is refused and only a full buffer is.
C2_ItemsCorrect ==
  /\ pcW # "idle" => witems = occAtCall
  /\ wret = "false" => (witems = capacity /\ occAtCall = capacity)
  /\ pcW = "w_tail" => occAtCall < capacity

\* a full buffer detected with the write counter wrapped and the read
\* counter not
C2_Witness ==
  /\ wret = "false" /\ witems = capacity
  /\ writes < capacity /\ reads > UINT_MAX - capacity

\* C3: the k-th successful buff_read returns the item of the k-th successful
\* buff_write: the items read are a prefix of the items written.
C3_Fifo ==
  /\ Len(readSeq) <= Len(written)
  /\ \A k \in 1 .. Len(readSeq) : readSeq[k] = written[k]

\* every slot reused and read again, both sides in the middle of a call
C3_Witness ==
  /\ Len(readSeq) > capacity
  /\ pcW = "w_inc" /\ pcR = "r_copy"

\* C4: a buff_write on a full buffer returns false and changes no slot and
\* neither counter; a successful one stores the item at slot
\* writes mod capacity and then increments writes by exactly one.
C4_WriteEffect ==
  [][ /\ (pcW = "w_full" /\ occAtCall = capacity /\ pcW' # pcW)
         => (pcW' = "idle" /\ wret' = "false")
      /\ (pcW' # pcW /\ pcW' \in {"w_full", "w_tail", "w_store"})
         => UNCHANGED <<buff, reads, writes>>
      /\ (pcW = "w_full" /\ pcW' = "idle")
         => (wret' = "false" /\ UNCHANGED <<buff, reads, writes>>)
      /\ (pcW = "w_store" /\ pcW' # pcW)
         => /\ pcW' = "w_inc"
            /\ buff' = [buff EXCEPT ![writes % capacity] = witem]
            /\ UNCHANGED <<reads, writes>>
      /\ (pcW = "w_inc" /\ pcW' # pcW)
         => /\ pcW' = "idle" /\ wret' = "true"
            /\ writes' = (writes + 1) % CounterMod
            /\ UNCHANGED <<buff, reads>>
    ]_vars

\* a refused write after the slots have been reused
C4_Witness ==
  /\ pcW = "idle" /\ wret = "false"
  /\ Len(written) > capacity

\* C5: a buff_read with writes = reads returns false and changes neither the
\* output item, nor a slot, nor a counter; otherwise it copies slot
\* reads mod capacity into the output item, increments reads by exactly one
\* and returns true.
C5_ReadEffect ==
  [][ /\ (rtick' # rtick /\ writes = reads)
         => /\ pcR' = "idle" /\ rret' = "false"
            /\ UNCHANGED <<ritem, buff, reads, writes>>
      /\ (rtick' # rtick /\ writes # reads)
         => (pcR' = "r_head" /\ UNCHANGED <<ritem, buff, reads, writes>>)
      /\ (pcR = "r_head" /\ pcR' # pcR)
         => (pcR' = "r_copy" /\ UNCHANGED <<ritem, buff, reads, writes>>)
      /\ (pcR = "r_copy" /\ pcR' # pcR)
         => /\ pcR' = "r_inc"
            /\ ritem' = buff[reads % capacity]
            /\ UNCHANGED <<buff, reads, writes>>
      /\ (pcR = "r_inc" /\ pcR' # pcR)
         => /\ pcR' = "idle" /\ rret' = "true"
            /\ reads' = (reads + 1) % CounterMod
            /\ UNCHANGED <<ritem, buff, writes>>
    ]_vars

\* a read refused on an empty buffer after items have been read
C5_Witness ==
  /\ pcR = "idle" /\ rret = "false"
  /\ Len(readSeq) > 0 /\ writes = reads

(***************************************************************************)
(* Index arithmetic properties.                                            *)
(***************************************************************************)
\* C6: unsynched_head returns a value in [0, capacity) from which walking
\* forward count steps (modulo capacity) lands exactly at tail.
C6_UnsynchedHeadLandsAtTail ==
  ix_pc = "done" =>
    /\ ix_uhead \in 0 .. (ix_size - 1)
    /\ (ix_uhead + ix_unsynched) % ix_size = ix_tail

\* C7: unreported_head returns a value in [0, capacity) from which walking
\* forward unreported steps (modulo capacity) lands exactly at
\* unsynched_head(unsynched, tail, capacity).
C7_UnreportedPrecedesUnsynched ==
  ix_pc = "done" =>
    /\ ix_rhead \in 0 .. (ix_size - 1)
    /\ (ix_rhead + ix_unreported) % ix_size = ix_uhead

\* the subtraction goes below zero and the count is the largest allowed
C7_Witness ==
  /\ ix_pc = "done"
  /\ ix_size > 2 /\ ix_unreported = ix_size - 1
  /\ ix_uhead < ix_unreported


(***************************************************************************)
(* Synchronisation properties.                                             *)
(***************************************************************************)
\* the records expected from a and b: (a_1, b_1), (a_2, b_2), ...
Pairs(a, b) == [k \in 1 .. Len(a) |-> <<a[k], b[k]>>]

\* exactly one sync round has run, on both nodes, and every byte either node
\* has stored was stored before the round's request; both stored the same
\* number of bytes
OneCleanRound ==
  /\ syncs["alpha"] = 1 /\ syncs["beta"] = 1
  /\ pc["alpha"] \in {"report", "rep_loop", "loop"}
  /\ Len(captured["alpha"]) > 0
  /\ Len(captured["beta"]) = Len(captured["alpha"])
  /\ \A n \in Node : capAtReq[n] = Len(captured[n])

\* node n has finished a reporting pass that began after the round
ReportedAfterRound(n) == passSync[n] = 1 /\ pc[n] = "loop"

\* C8: from empty logs, N bytes a_1..a_N stored on alpha and N bytes
\* b_1..b_N on beta (0 < N < LOG_SIZE), then one sync round with no capture
\* during it: unreported = N and unsynchronized = 0 on both nodes, and each
\* node's reporting pass prints (a_1,b_1), ..., (a_N,b_N) in that order.
C8_RoundTripPairing ==
  OneCleanRound =>
    /\ \A n \in Node : /\ bytes_unreported[n] = Len(captured[n])
                       /\ bytes_unsynched[n] = 0
    /\ \A n \in Node : ReportedAfterRound(n)
         => out[n] = Pairs(captured["alpha"], captured["beta"])

\* C9: when both nodes have stored the same number of bytes since the last
\* sync point, after one sync round the pairs alpha's reporting pass prints
\* are the pairs beta's prints, element for element.
C9_SamePairsOnBothNodes ==
  (OneCleanRound /\ \A n \in Node : ReportedAfterRound(n))
    => out["alpha"] = out["beta"]

Arrivals(n, k) == [i \in 1 .. k |-> SPDR(n, i)]

\* no sync round has been started on either node
NoSyncYet ==
  /\ \A n \in Node : syncs[n] = 0
  /\ pc["alpha"] \in {"loop", "report", "rep_loop"}
  /\ wire_req = -1 /\ wire_deliver = <<>>

\* C11: while synchronisation has never run, the first LOG_SIZE bytes that
\* arrive at a node are stored in arrival order, the bytes beyond LOG_SIZE
\* are dropped leaving every stored slot as it was, and the slow-sync LED is
\* driven once for each dropped byte and for no stored byte.
C11_FirstCapacityBytesStored ==
  \A n \in Node : NoSyncYet =>
    LET k == IF arrived[n] < LOG_SIZE THEN arrived[n] ELSE LOG_SIZE
    IN  /\ captured[n] = Arrivals(n, k)
        /\ \A i \in 1 .. k : our_log[n][(i - 1) % LOG_SIZE] = SPDR(n, i)
        /\ slowsync_events[n] = arrived[n] - k


(***************************************************************************)
(* The wait for the peer's bytes.                                          *)
(***************************************************************************)
\* alpha is in the wait loop and the reply to its request has come in
Awaiting == pc["alpha"] = "wait" /\ wire_req = -1

\* the wait loop's condition holds: fewer bytes are available than the
\* unsynchronized count now says
Blocked == pc["alpha"] = "wait" /\ Len(wire_rx) < bytes_unsynched["alpha"]

\* C12: when beta supplies fewer bytes than alpha requested, alpha goes on
\* to complete the round (with bytes_synched the count received, the
\* unsynchronized LED driven and both counts adjusted by the count
\* received): it is not held in the wait loop.
C12_ShortReplyCompletes ==
  (Awaiting /\ Len(wire_rx) < requested) => ENABLED AlphaWait

\* C13: the wait has no timeout. Once alpha is in the wait loop with fewer
\* bytes available than it waits for, it stays there with the deadlocked LED
\* on, and from then on its main loop transmits nothing, completes no
\* bookkeeping (unreported unchanged, unsynchronized changed by the capture
\* handler only) and prints nothing.
C13_BlockedForever ==
  [][ Blocked =>
        /\ DEADLOCKED_LED["alpha"]
        /\ Blocked' /\ DEADLOCKED_LED'["alpha"]
        /\ UNCHANGED <<wire_rx, wire_tx, wire_deliver, bytes_synched>>
        /\ bytes_unreported'["alpha"] = bytes_unreported["alpha"]
        /\ syncs'["alpha"] = syncs["alpha"]
        /\ out'["alpha"] = out["alpha"]
        /\ \/ bytes_unsynched'["alpha"] = bytes_unsynched["alpha"]
           \/ /\ arrived'["alpha"] = arrived["alpha"] + 1
              /\ bytes_unsynched'["alpha"] = bytes_unsynched["alpha"] + 1
    ]_vars

\* alpha is blocked on a reply shorter than its request, beta has passed its
\* reporting step since, and a byte has arrived at alpha meanwhile
C13_Witness ==
  /\ Blocked /\ wire_req = -1 /\ Len(wire_rx) < requested
  /\ DEADLOCKED_LED["alpha"]
  /\ Len(captured["alpha"]) > capAtReq["alpha"]
  /\ pc["beta"] = "report"


(***************************************************************************)
(* The backlog counts.                                                     *)
(***************************************************************************)
\* both nodes have done the bookkeeping of the same number of rounds, and
\* alpha is not inside a round
RoundComplete ==
  /\ syncs["alpha"] > 0 /\ syncs["beta"] = syncs["alpha"]
  /\ pc["alpha"] \in {"report", "rep_loop", "loop"}
  /\ wire_deliver = <<>>

\* C14: at the end of every sync round that completes, alpha's unreported
\* count equals beta's, whatever the interleaving of the capture handlers
\* with the steps of the exchange.
C14_EqualUnreported ==
  RoundComplete => bytes_unreported["alpha"] = bytes_unreported["beta"]

\* C15: in every reachable state of either node, 0 <= unsynchronized <=
\* LOG_SIZE and 0 <= unreported <= LOG_SIZE.
C15_CountsInRange ==
  \A n \in Node : /\ 0 <= bytes_unsynched[n] /\ bytes_unsynched[n] <= LOG_SIZE
                  /\ 0 <= bytes_unreported[n] /\ bytes_unreported[n] <= LOG_SIZE

\* C16: a reporting pass that found unreported > 0 leaves unreported = 0:
\* when a pass has ended and no bookkeeping has happened since it began,
\* nothing is left to report (so the next pass prints nothing).
C16_ReporterDrains ==
  \A n \in Node :
    (pc[n] = "loop" /\ passSync[n] >= 0 /\ passSync[n] = syncs[n])
      => bytes_unreported[n] = 0


(***************************************************************************)
(* The reporting pass.                                                     *)
(***************************************************************************)
\* the log that holds alpha's side of the bus on node n, and beta's side
AlphaSide(n) == IF n = "alpha" THEN our_log[n] ELSE their_log[n]

BetaSide(n) == IF n = "alpha" THEN their_log[n] ELSE our_log[n]

\* a step of node n's reporting pass: its start, one record, or its end
ReporterStep(n) ==
  /\ pc[n] \in {"report", "rep_loop"}
  /\ pc'[n] # pc[n] \/ rep_i'[n] # rep_i[n]

\* C17: every record a node prints is (byte of the alpha-side log, byte of
\* the beta-side log): alpha prints its own byte then the peer's, beta the
\* peer's then its own. A pass starts at unreported_head, prints consecutive
\* positions from there, and changes neither log, neither tail, nor the
\* unsynchronized count.
C17_ReportOrder ==
  [][ \A n \in Node : ReporterStep(n) =>
        /\ UNCHANGED <<our_log, their_log, our_log_head, our_log_tail,
                       their_log_head, their_log_tail, bytes_unsynched>>
        /\ (pc[n] = "report" /\ pc'[n] = "rep_loop") =>
             /\ start'[n] = unreported_head(bytes_unreported[n], bytes_unsynched[n],
                                            our_log_tail[n], LOG_SIZE)
             /\ out'[n] = <<>>
        /\ (pc[n] = "rep_loop" /\ pc'[n] = "rep_loop") =>
             LET at == (start[n] + Len(out[n])) % LOG_SIZE
             IN  out'[n] = Append(out[n], <<AlphaSide(n)[at], BetaSide(n)[at]>>)
        /\ pc'[n] = "loop" => out'[n] = out[n]
    ]_vars

\* both nodes have printed a record in which the byte of their own capture
\* stands on their own side: first on alpha, second on beta
C17_Witness ==
  /\ \E k \in 1 .. Len(out["alpha"]) : out["alpha"][k][1] = SPDR("alpha", 1)
  /\ \E k \in 1 .. Len(out["beta"]) : out["beta"][k][2] = SPDR("beta", 1)
  /\ pc["alpha"] = "loop" /\ pc["beta"] = "loop"


(***************************************************************************)
(* Captures during a sync round, and room in the log after it.             *)
(***************************************************************************)
\* C18: alpha waits for exactly the number of bytes it requested: once beta
\* has supplied that many, alpha can leave the wait loop, also when bytes
\* were captured on alpha since the request was issued.
C18_WaitsForRequestedCount ==
  (Awaiting /\ Len(wire_rx) = requested) => ENABLED AlphaWait

\* C19: no capture is lost from the unsynchronized count: when alpha has
\* written back bytes_unsynched -= bytes_synched, the count equals its value
\* at the start of the round, plus the bytes stored since, minus
\* bytes_synched, wherever the capture handler ran in between.
C19_NoLostCapture ==
  pc["alpha"] = "inc_unrep" =>
    bytes_unsynched["alpha"] =
      roundStart.uns + (Len(captured["alpha"]) - roundStart.cap) - bytes_synched

\* after a round that synchronized every byte the two nodes have stored,
\* node n has finished a reporting pass: nothing it holds is unsynchronized
\* or was left out of the pass
Drained(n) ==
  /\ OneCleanRound
  /\ ReportedAfterRound(n)
  /\ bytes_unsynched[n] = 0

\* C20: loss is bounded to overload: once a node's backlog has been
\* synchronized and reported its log has room again, so that the next byte
\* to arrive is stored rather than dropped, however many bytes the node has
\* stored before.
C20_RoomAfterDrain ==
  \A n \in Node :
    Drained(n) => our_log_head[n] # (our_log_tail[n] + 1) % LOG_SIZE


(***************************************************************************)
(* What a node transmits.                                                  *)
(***************************************************************************)
\* node n is in its first round and has stored nothing since the request
\* was issued: its unsynchronized bytes are all the bytes it has stored
FirstRoundQuiet(n) ==
  /\ syncs[n] = 0
  /\ capAtReq[n] = Len(captured[n])
  /\ bytes_unsynched[n] = Len(captured[n])

\* C21: a node that transmits with unsynchronized = u sends exactly u bytes,
\* its u not-yet-synchronized bytes in capture order, oldest first. In the
\* first round with no capture since the request these are all the bytes the
\* node has stored: alpha's transmission is its capture sequence, and so is
\* beta's reply when the request asked for at least that many bytes.
C21_PayloadIsUnsynchedBytes ==
  /\ (wire_deliver # <<>> /\ FirstRoundQuiet("alpha"))
       => wire_deliver = captured["alpha"]
  /\ (pc["alpha"] = "requesting" /\ wire_req = -1 /\ FirstRoundQuiet("beta")
        /\ Len(captured["beta"]) <= requested)
       => wire_rx = captured["beta"]


(***************************************************************************)
(* The two counts together.                                                *)
(***************************************************************************)
\* node n is between the two statements of its bookkeeping
MidBookkeeping(n) == n = "alpha" /\ pc[n] = "inc_unrep"

\* C22: the bookkeeping of a sync round moves bytes_synched from
\* unsynchronized to unreported and leaves their sum as it was, and the sum
\* grows only by one for each byte the capture handler stores: outside the
\* bookkeeping itself, unsynchronized + unreported is the number of bytes the
\* node has stored.
C22_SumIsStoredCount ==
  \A n \in Node :
    ~MidBookkeeping(n) =>
      bytes_unsynched[n] + bytes_unreported[n] = Len(captured[n])


(***************************************************************************)
(* Receiving the peer's bytes.                                             *)
(***************************************************************************)
\* their_log of node n has room for one more byte
TheirRoom(n) == their_log_head[n] # (their_log_tail[n] + 1) % LOG_SIZE

\* the number of bytes their_log of node n can still take
TheirFree(n) == (their_log_head[n] - their_log_tail[n] - 1) % LOG_SIZE

\* the step in which alpha takes one received byte off the wire
AlphaConsumes == pc["alpha"] = "recv" /\ wire_rx' # wire_rx

\* the step in which beta's receive callback takes the delivered bytes
BetaConsumes == wire_deliver # <<>> /\ wire_deliver' = <<>>

\* the step in which alpha_synchronize starts a round
AlphaStartsRound == pc["alpha"] = "loop" /\ pc'["alpha"] = "request"

\* C23: each received byte is appended to their_log and the tail advances by
\* one if there is room; if their_log is full the byte is discarded, the
\* slow-dump LED is driven and their_log and its tail stay as they are. On
\* alpha bytes_synched starts a round at 0 and grows by one for every byte
\* received, stored or dropped, and by nothing else.
C23_ReceiveStep ==
  /\ AlphaConsumes =>
       LET t == their_log_tail["alpha"] IN
       IF TheirRoom("alpha")
         THEN /\ their_log'["alpha"] = [their_log["alpha"] EXCEPT ![t] = Head(wire_rx)]
              /\ their_log_tail'["alpha"] = (t + 1) % LOG_SIZE
              /\ SLOWDUMP_LED'["alpha"] = SLOWDUMP_LED["alpha"]
         ELSE /\ their_log'["alpha"] = their_log["alpha"]
              /\ their_log_tail'["alpha"] = t
              /\ SLOWDUMP_LED'["alpha"]
  /\ BetaConsumes =>
       LET t == their_log_tail["beta"]
           n == Len(wire_deliver)
           k == IF n < TheirFree("beta") THEN n ELSE TheirFree("beta")
       IN  /\ \A i \in 1 .. k :
                their_log'["beta"][(t + i - 1) % LOG_SIZE] = wire_deliver[i]
           /\ \A j \in LogIndex :
                (\A i \in 1 .. k : j # (t + i - 1) % LOG_SIZE)
                  => their_log'["beta"][j] = their_log["beta"][j]
           /\ their_log_tail'["beta"] = (t + k) % LOG_SIZE
           /\ SLOWDUMP_LED'["beta"] = (SLOWDUMP_LED["beta"] \/ n > k)
  /\ bytes_synched' = IF AlphaStartsRound THEN 0
                      ELSE IF AlphaConsumes THEN bytes_synched + 1
                      ELSE bytes_synched

C23_TheirLogAppendOrDrop == [][C23_ReceiveStep]_vars

\* alpha has stored and counted received bytes, and beta has dropped one
C23_Witness ==
  /\ SLOWDUMP_LED["beta"]
  /\ bytes_synched > 0 /\ their_log_tail["alpha"] > 0


(***************************************************************************)
(* A call of alpha_synchronize with nothing to do.                         *)
(***************************************************************************)
\* the step in which node n's loop() passes the synchronisation part
LoopStep(n) == pc[n] = "loop" /\ pc'[n] # "loop"

\* C24: a request is issued only when bytes_unsynched > 0. When
\* alpha_synchronize is reached with bytes_unsynched = 0, or the node is not
\* alpha, it returns 0 and there is no transport operation, no LED is driven
\* and no log, tail or count changes (the deadlocked LED included); the node
\* goes on to its reporting part.
C24_BailStep ==
  \A n \in Node :
    LoopStep(n) =>
      IF n # "alpha" \/ bytes_unsynched[n] = 0
        THEN /\ pc'[n] = "report"
             /\ n = "alpha" => synched' = 0
             /\ UNCHANGED <<logVars, countVars, ledVars, wireVars>>
        ELSE pc'[n] = "request"

C24_NothingToDoNoEffect == [][C24_BailStep]_vars

\* alpha has completed a round and, called again with nothing to
\* synchronise, has returned 0
C24_Witness ==
  /\ pc["alpha"] = "report" /\ synched = 0
  /\ syncs["alpha"] > 0 /\ bytes_unsynched["alpha"] = 0


(***************************************************************************)
(* The deadlocked LED.                                                     *)
(***************************************************************************)
\* alpha is waiting for the peer's bytes or taking them off the wire
AwaitingOrConsuming == pc["alpha"] \in {"wait", "recv"}

\* C25: the deadlocked LED is lit exactly while alpha is awaiting or
\* consuming the peer's bytes: it is driven high after the request has been
\* issued and before the wait begins, driven low after the last received byte
\* has been consumed and before alpha transmits its own bytes, and it is
\* never lit while alpha is idle, nor on beta.
C25_DeadlockedLedWhileAwaiting ==
  /\ DEADLOCKED_LED["alpha"] <=> AwaitingOrConsuming
  /\ ~DEADLOCKED_LED["beta"]

\* alpha has consumed the whole reply and has not yet left the receive loop
C25_Witness ==
  /\ DEADLOCKED_LED["alpha"] /\ pc["alpha"] = "recv"
  /\ wire_rx = <<>> /\ bytes_synched > 0


(***************************************************************************)
(* Who writes what in the ring buffer.                                     *)
(***************************************************************************)
\* a step of buff_write
WriterStep == pcW' # pcW

\* a step of buff_read
ReaderStep == pcR' # pcR \/ rtick' # rtick

\* C26: buff_write never modifies the read counter, and buff_read never
\* modifies the write counter nor any slot of the buffer, whether the call
\* succeeds or fails.
C26_OwnershipStep ==
  /\ WriterStep => reads' = reads
  /\ ReaderStep => writes' = writes /\ buff' = buff

C26_SingleWriterDiscipline == [][C26_OwnershipStep]_vars

\* a write has been refused on a full buffer and a read on an empty one,
\* after writes and reads that succeeded
C26_Witness ==
  /\ wret = "false" /\ rret = "false"
  /\ Len(written) > 0 /\ Len(readSeq) > 0


(***************************************************************************)
(* The capacity must be a power of two.                                    *)
(***************************************************************************)
\* counter values around zero and around the wrap of the 16-bit counters
CountSample == (0 .. (2 * q_capacity + 1)) \cup ((UINT_MAX - q_capacity) .. UINT_MAX)

\* the items read so far are the first items written, in order
ReadIsPrefixOfWritten ==
  /\ Len(q_readSeq) <= Len(q_written)
  /\ \A i \in 1 .. Len(q_readSeq) : q_readSeq[i] = q_written[i]

\* capacity writes and no read, on a buffer started empty, no call refused
FilledWithoutRefusal ==
  Len(q_written) = q_capacity /\ q_readSeq = <<>> /\ ~q_refused

\* C27: for a capacity that is a power of two, count & (capacity - 1) is
\* count mod capacity, no write stores over an unread item and every read
\* returns the oldest unread item. For a capacity that is not a power of
\* two, filling an empty buffer, every call returning true, already stores
\* over an item that has not been read.
C27_PowerOfTwoRequired ==
  /\ IsPowerOfTwo(q_capacity) =>
       /\ \A count \in CountSample :
            SlotAt(count, q_capacity) = count % q_capacity
       /\ ~q_clobbered
       /\ ReadIsPrefixOfWritten
  /\ (~IsPowerOfTwo(q_capacity) /\ FilledWithoutRefusal) => q_clobbered

\* with a capacity that is not a power of two and every call returning true,
\* a write has stored over an unread item and a read has returned an item
\* that was not the oldest unread one
C27_Witness ==
  /\ ~IsPowerOfTwo(q_capacity) /\ ~q_refused
  /\ q_clobbered /\ ~ReadIsPrefixOfWritten


(***************************************************************************)
(* The single-buffer sketch.                                               *)
(***************************************************************************)
\* loop() is inside the body of if (buffer_full), after the interrupt has
\* been disabled and before it is enabled again
InFlush == sk_pc \in {"print", "reset_pos", "reset_full", "enable"}

\* the handler runs in this step
HandlerStep == sk_arrived' # sk_arrived \/ (SPIF /\ ~SPIF')

\* the handler runs in this step with byte b
HandlerRunsWith(b) ==
  \/ sk_arrived' # sk_arrived /\ SPIE /\ b = sk_arrived + 1
  \/ sk_arrived' = sk_arrived /\ SPIF /\ ~SPIF' /\ b = sk_SPDR

C28_SketchState ==
  /\ pos \in 0 .. buff_size
  \* the flush runs only with buffer_full set and the interrupt disabled
  /\ sk_pc \in {"disable", "print", "reset_pos", "reset_full"} => buffer_full
  /\ InFlush => ~SPIE
  \* what is in the buffer is what was stored since pos was 0, in order
  /\ Len(sk_fill) = pos
  /\ \A i \in 1 .. pos : sk_buff[i - 1] = sk_fill[i]
  /\ (buffer_full /\ sk_pc # "reset_full") => pos = buff_size
  \* the lines printed are buff[0..i-1], the bytes in capture order
  /\ sk_pc = "print" => sk_printed = SubSeq(sk_fill, 1, sk_i)
  /\ sk_pc \in {"reset_pos"} => sk_printed = sk_fill /\ Len(sk_printed) = buff_size
  \* after the flush
  /\ sk_pc = "enable" => pos = 0 /\ ~buffer_full

C28_SketchStep ==
  /\ \A b \in 1 .. MaxSketchBytes :
       HandlerRunsWith(b) =>
         IF pos < buff_size
           THEN /\ sk_buff' = [sk_buff EXCEPT ![pos] = b]
                /\ pos' = pos + 1
                /\ buffer_full' = buffer_full
           ELSE /\ sk_buff' = sk_buff /\ pos' = pos
                /\ buffer_full'
  \* only the handler stores, and never while the buffer is being printed
  /\ sk_buff' # sk_buff => (\E b \in 1 .. MaxSketchBytes : HandlerRunsWith(b)) /\ ~InFlush
  \* a flush begins only from a set buffer_full
  /\ (sk_pc = "loop" /\ sk_pc' = "disable") => buffer_full

\* C28: in every interleaving of the SPI handler with loop(), pos stays in
\* 0..buff_size and the handler stores only below buff_size; a byte that
\* arrives with pos = buff_size is not stored and sets buffer_full; the
\* flush runs only with buffer_full set and with the SPI interrupt disabled,
\* prints buff[0..buff_size-1] in capture order with no stored byte
\* overwritten before it is printed, and leaves pos = 0 and buffer_full
\* false.
C28_SketchSafety == []C28_SketchState /\ [][C28_SketchStep]_vars

\* a second flush has printed its buffer while a byte arrived that the
\* disabled interrupt has not yet let through
C28_Witness ==
  /\ sk_pc = "reset_pos" /\ flushes = 2 /\ SPIF
  /\ Len(sk_printed) = buff_size


\* the buffer holds buff_size stored bytes that have not been printed
BufferHoldsFullFill == pos = buff_size /\ sk_pc \in {"loop", "disable"}

\* loop() has printed the whole buffer
FlushedFill == sk_pc = "reset_pos"

\* C29: every byte stored in the buffer is eventually printed: once the
\* buffer holds buff_size stored bytes, loop() eventually flushes it, even if
\* no further byte arrives on the bus.
C29_FullBufferEventuallyFlushed == BufferHoldsFullFill ~> FlushedFill


(***************************************************************************)
(* The first version of the two-node sketch.                               *)
(***************************************************************************)
\* C30: when a byte arrives and our_log has no room left, the byte is
\* dropped: no stored byte that is still unsynchronized is overwritten and
\* the write position does not wrap onto unsynchronized data; and the
\* unsynchronized count stays in 0..LOG_SIZE in every reachable state,
\* also after bytes_unsynced -= bytes_synced on the 8-bit counter.
C30_NoOverwriteCountInRange ==
  /\ \A n \in Node : ~fs_clobbered[n]
  /\ \A n \in Node : bytes_unsynced[n] \in 0 .. LOG_SIZE

============================================================================
